---- MODULE Spec2Model ----
(***************************************************************************)
(* A model of bentu404_cursors/png2svg.py: the conversion of an RGBA pixel *)
(* grid into an SVG document of rectangles.  One call of png2svg is a      *)
(* state machine over the function's local variables; pc is the position   *)
(* in its body.  Python's 0-based indices are kept in the variables, and   *)
(* 1 is added where a TLA+ sequence is indexed.                            *)
(*                                                                         *)
(* Numbers: width_px * scale + 0.5 is a float with one binary digit after  *)
(* the point, so floats of that kind are counted in halves (2 * value).    *)
(* opacity = a / 255.0 is kept as the pair <<a, 255>>; two such floats are *)
(* equal exactly when the pairs are, since a ranges over 0..255.           *)
(*                                                                         *)
(* process_directory (the walk over an input tree, with png2svg as one     *)
(* step per image) and convertcursors.main (the temporary directory of the *)
(* zip extraction and the search for cursor files) are state machines of   *)
(* their own, each with its own specification.                             *)
(***************************************************************************)
EXTENDS Integers, Sequences, FiniteSets, TLC

\* ------------------------------------------------------------- bounds
MaxWidth == 2
MaxHeight == 3
\* width * height of an input image is at most MaxCells
MaxCells == 6
MaxScale == 2
\* an unchecked scale argument is drawn from (1 - MaxNonPositive)..MaxScale
MaxNonPositive == 2
\* a directory of the input tree holds at most MaxFiles files
MaxFiles == 3
\* input_dir holds at most MaxZips zip files
MaxZips == 2
\* a run list handed over in any order is that of at most MaxShuffleCells pixels
MaxShuffleCells == 4

\* The RGBA samples an input pixel is drawn from: transparent, opaque red,
\* opaque blue, half-transparent red.
Pixels ==
    { <<0, 0, 0, 0>>, <<255, 0, 0, 255>>, <<0, 0, 255, 255>>, <<255, 0, 0, 128>> }

VARIABLES
    pixel_view,      \* img.export_pixels("RGBA"): the flat list of samples
    width, height,   \* img.width, img.height
    scale,           \* the scale argument
    svg,             \* the root element's attributes, <<name, value>> pairs
    pixel_group,     \* the <g> element's children, each a list of attributes
    grid,            \* rows of cells; a cell is None or <<color, opacity>>
    horizontal_runs, \* the pending runs <<y, start_x, end_x, color, opacity>>
    rectangles,      \* <<x, y, width_px, height_px, color, opacity>>
    x, y, start_x, end_x, color, opacity, height_run, i,   \* loop variables
    k,               \* how many rectangles the emitting loop has consumed
    svg_file,        \* what was written to svg_path, as its lines
    pc,              \* the position in png2svg
    extracted,       \* history: horizontal_runs as the first phase left it
    absorbed,        \* history: the runs merged into the rectangle being built
    built,           \* history: per finalized rectangle, the runs it is made of
    call,            \* which call of png2svg on this input is running
    first_result,    \* history: what the first call produced
    error,           \* the exception that was raised, "" while none
    \* process_directory
    input_dirs,      \* the directories under input_dir, as path pieces
    input_files,     \* the files under input_dir, <<directory, name>>
    broken,          \* the image files png2svg cannot decode
    walk,            \* the directories os.walk has still to yield
    root,            \* the directory os.walk yielded last, <<>> before
    files,           \* the files of root the inner loop has still to take
    out_dirs,        \* the directories that exist under output_dir
    output,          \* the files under output_dir, <<path, content>>
    log,             \* the lines printed, <<"Converted" or "Copied", source, path>>
    dpc,             \* the position in process_directory
    \* convertcursors
    input_has,       \* what lies in input_dir outside zip files: [inf, cursor]
    zips,            \* the zip files of input_dir: [inf, cursor, extracts]
    inf_kind,        \* how the INF file parses
    temp_on_disk,    \* whether the directory mkdtemp made exists
    temp_extract_dir,    \* parse_install_inf's local, "" before mkdtemp
    dirs_to_search,      \* 0 is input_dir, n the directory zip n went into
    extracted_zip_dirs,
    z,               \* the number of the zip file the first loop is at
    inf_dir,         \* the directory of the INF file, NoDir before
    theme_config,    \* parse_install_inf's ThemeConfig, None before
    main_theme_config,   \* main's theme_config, None until the call returns
    found,           \* the directory the cursor file was found in, or NoDir
    exit_code,       \* NoDir while main runs
    cpc,             \* the position in convertcursors.main
    \* extract_cursor_images and create_metadata_toml
    cursor_files,    \* per cursor type, what the search finds: [ani, cur]
    cursor_mappings, \* the cursor types the INF file names a file for
    cursor_hotspots, \* theme_config.cursor_hotspots
    processed_mappings,  \* the cursor types the loop has still to take
    total_count,
    success_count,
    calls,           \* the calls of process_cursor_file: <<type, extension, result>>
    svg_made,        \* the output names an SVG file was written for
    metadata,        \* the keys of metadata["cursors"]
    ipc              \* the position in extract_cursor_images and after

\* the state of process_directory
batch ==
    << input_dirs, input_files, broken, walk, root, files, out_dirs, output,
       log, dpc >>

\* the state of convertcursors.main
cursors ==
    << input_has, zips, inf_kind, temp_on_disk, temp_extract_dir,
       dirs_to_search, extracted_zip_dirs, z, inf_dir, theme_config,
       main_theme_config, found, exit_code, cpc >>

\* the state of extract_cursor_images and create_metadata_toml
images ==
    << cursor_files, cursor_mappings, cursor_hotspots, processed_mappings,
       total_count, success_count, calls, svg_made, metadata, ipc >>

\* what the steps of an undisturbed png2svg call leave alone
env == << error, batch, cursors, images >>

\* the state of one png2svg call
conversion ==
    << pixel_view, width, height, scale, svg, pixel_group, grid,
       horizontal_runs, rectangles, x, y, start_x, end_x, color, opacity,
       height_run, i, k, svg_file, pc, extracted, absorbed, built, call,
       first_result >>

vars ==
    << pixel_view, width, height, scale, svg, pixel_group, grid,
       horizontal_runs, rectangles, x, y, start_x, end_x, color, opacity,
       height_run, i, k, svg_file, pc, extracted, absorbed, built, call,
       first_result, env >>

\* ------------------------------------------------------------ helpers
None == <<>>

Digit == <<"0", "1", "2", "3", "4", "5", "6", "7", "8", "9">>

\* str(n) of an int
RECURSIVE IntStr(_)
IntStr(n) ==
    IF n < 0 THEN "-" \o IntStr(-n)
    ELSE IF n < 10 THEN Digit[n + 1]
    ELSE IntStr(n \div 10) \o Digit[(n % 10) + 1]

\* str(f) of a float f = halves / 2 (never -0.0 here)
RECURSIVE FloatStr(_)
FloatStr(halves) ==
    IF halves < 0 THEN "-" \o FloatStr(-halves)
    ELSE IF halves % 2 = 0 THEN IntStr(halves \div 2) \o ".0"
    ELSE IntStr((halves - 1) \div 2) \o ".5"

\* str(a / 255.0): Python's shortest round-trip representation, tabulated for
\* the alpha samples of Pixels; for another alpha, the unevaluated quotient
\* (an injective stand-in).
OpacityStr(op) ==
    CASE op[1] = 0 -> "0.0"
      [] op[1] = 128 -> "0.5019607843137255"
      [] op[1] = 255 -> "1.0"
      [] OTHER -> IntStr(op[1]) \o "/" \o FloatStr(2 * op[2])

\* opacity < 1.0
BelowOne(op) == op[1] < op[2]

\* GridCell without the test for alpha 0
GridCellNoSkip(r, g, b, a) ==
    << "rgb(" \o IntStr(r) \o "," \o IntStr(g) \o "," \o IntStr(b) \o ")",
       <<a, 255>> >>

\* GridCell with the green and blue samples exchanged in the color
GridCellSwapped(r, g, b, a) ==
    IF a = 0 THEN None
    ELSE << "rgb(" \o IntStr(r) \o "," \o IntStr(b) \o "," \o IntStr(g) \o ")",
            <<a, 255>> >>

\* one cell of the grid from the samples r, g, b, a
GridCell(r, g, b, a) ==
    IF a = 0 THEN None
    ELSE << "rgb(" \o IntStr(r) \o "," \o IntStr(g) \o "," \o IntStr(b) \o ")",
            <<a, 255>> >>

\* the grid built from the flat sample list
BuildGridOf(view, w, h) ==
    [ yy \in 1..h |->
        [ xx \in 1..w |->
            LET idx == ((yy - 1) * w + (xx - 1)) * 4
            IN  GridCell(view[idx + 1], view[idx + 2], view[idx + 3], view[idx + 4]) ] ]

\* grid[yy][xx], 0-based
At(g, yy, xx) == g[yy + 1][xx + 1]

\* RunEnd comparing the color alone, not the opacity
RECURSIVE RunEndColorOnly(_, _, _, _, _)
RunEndColorOnly(g, w, yy, xx, cell) ==
    IF xx < w /\ At(g, yy, xx) # None /\ At(g, yy, xx)[1] = cell[1]
    THEN RunEndColorOnly(g, w, yy, xx + 1, cell)
    ELSE xx

\* the column where the run starting at column xx of row yy ends (exclusive):
\* while x < width and grid[y][x] == (color, opacity): x += 1
RECURSIVE RunEnd(_, _, _, _, _)
RunEnd(g, w, yy, xx, cell) ==
    IF xx < w /\ At(g, yy, xx) = cell THEN RunEnd(g, w, yy, xx + 1, cell)
    ELSE xx

\* list.pop(j), 0-based: the list without its element j
Pop(s, j) == SubSeq(s, 1, j) \o SubSeq(s, j + 2, Len(s))

\* ------------------------------------------------------------- inputs
\* the flat RGBA list of n pixels p[1..n]
Flat(p, n) == [ j \in 1..(4 * n) |-> p[((j - 1) \div 4) + 1][((j - 1) % 4) + 1] ]

\* the decoded image: its dimensions and samples
ImageInput ==
    /\ width \in 1..MaxWidth
    /\ height \in 1..MaxHeight
    /\ width * height <= MaxCells
    /\ \E p \in [1..(width * height) -> Pixels] :
          pixel_view = Flat(p, width * height)

\* the locals of a call that has not run yet
FreshCall ==
    /\ svg = <<>>
    /\ pixel_group = <<>>
    /\ grid = <<>>
    /\ horizontal_runs = <<>>
    /\ rectangles = <<>>
    /\ x = 0 /\ y = 0 /\ start_x = 0 /\ end_x = 0
    /\ color = "" /\ opacity = <<0, 255>>
    /\ height_run = 0 /\ i = 0 /\ k = 0
    /\ extracted = <<>>
    /\ absorbed = <<>>
    /\ built = <<>>
    /\ call = 1
    /\ first_result = <<>>
    /\ error = ""

\* process_directory is not running
BatchIdle ==
    /\ input_dirs = {}
    /\ input_files = {}
    /\ broken = {}
    /\ walk = <<>>
    /\ root = <<>>
    /\ files = {}
    /\ out_dirs = {}
    /\ output = {}
    /\ log = {}
    /\ dpc = "idle"

\* no directory
NoDir == 0 - 1

\* convertcursors.main is not running
CursorsIdle ==
    /\ input_has = [inf |-> FALSE, cursor |-> FALSE]
    /\ zips = <<>>
    /\ inf_kind = "ok"
    /\ temp_on_disk = FALSE
    /\ temp_extract_dir = ""
    /\ dirs_to_search = <<>>
    /\ extracted_zip_dirs = <<>>
    /\ z = 0
    /\ inf_dir = NoDir
    /\ theme_config = None
    /\ main_theme_config = None
    /\ found = NoDir
    /\ exit_code = NoDir
    /\ cpc = "idle"

\* extract_cursor_images is not running
ImagesIdle ==
    /\ cursor_files = <<>>
    /\ cursor_mappings = {}
    /\ cursor_hotspots = <<>>
    /\ processed_mappings = <<>>
    /\ total_count = 0
    /\ success_count = 0
    /\ calls = {}
    /\ svg_made = {}
    /\ metadata = {}
    /\ ipc = "idle"

\* png2svg is entered with an image that decoded, a scale of at least 1 and
\* no file at svg_path
Init ==
    /\ ImageInput
    /\ scale \in 1..MaxScale
    /\ FreshCall
    /\ svg_file = <<>>
    /\ pc = "root"
    /\ BatchIdle
    /\ CursorsIdle
    /\ ImagesIdle

\* main, line 175: scale = int(sys.argv[3]), whatever integer that is; it
\* reaches png2svg through process_directory as it is
InitAnyScale ==
    /\ ImageInput
    /\ scale \in (1 - MaxNonPositive)..MaxScale
    /\ FreshCall
    /\ svg_file = <<>>
    /\ pc = "root"
    /\ BatchIdle
    /\ CursorsIdle
    /\ ImagesIdle

\* the lines of a file that was at svg_path before the call
Previous == << "<svg/>", "" >>

\* png2svg is entered with its default scale; svg_path names no file or one
\* of an earlier conversion
InitFail ==
    /\ ImageInput
    /\ scale = 1
    /\ FreshCall
    /\ svg_file \in { <<>>, Previous }
    /\ pc = "root"
    /\ BatchIdle
    /\ CursorsIdle
    /\ ImagesIdle

\* ------------------------------------------------- png2svg, step by step
\* CreateRoot opening svg_path for writing right away
CreateRootOpens ==
    /\ pc = "root"
    /\ svg' = << <<"width", IntStr(width * scale)>>,
                 <<"height", IntStr(height * scale)>> >>
    /\ pixel_group' = <<>>
    /\ svg_file' = << "" >>
    /\ pc' = "grid"
    /\ UNCHANGED << pixel_view, width, height, scale, grid, horizontal_runs,
                    rectangles, x, y, start_x, end_x, color, opacity,
                    height_run, i, k, extracted, absorbed, built,
                    call, first_result, env >>

\* lines 16-30: the root element and the group that collects the rectangles
CreateRoot ==
    /\ pc = "root"
    /\ svg' = << <<"width", IntStr(width * scale)>>,
                 <<"height", IntStr(height * scale)>>,
                 <<"xmlns", "http://www.w3.org/2000/svg">>,
                 <<"version", "1.1">>,
                 <<"viewBox", "0 0 " \o IntStr(width * scale) \o " "
                                \o IntStr(height * scale)>>,
                 <<"shape-rendering", "crispEdges">> >>
    /\ pixel_group' = <<>>
    /\ pc' = "grid"
    /\ UNCHANGED << pixel_view, width, height, scale, grid, horizontal_runs,
                    rectangles, x, y, start_x, end_x, color, opacity,
                    height_run, i, k, svg_file, extracted, absorbed, built,
                    call, first_result, env >>

\* lines 38-57: the grid, then the first phase starts at row 0
BuildGrid ==
    /\ pc = "grid"
    /\ grid' = BuildGridOf(pixel_view, width, height)
    /\ horizontal_runs' = <<>>
    /\ y' = 0
    /\ x' = 0
    /\ pc' = "runs"
    /\ UNCHANGED << pixel_view, width, height, scale, svg, pixel_group,
                    rectangles, start_x, end_x, color, opacity, height_run, i,
                    k, svg_file, extracted, absorbed, built, call,
                    first_result, env >>

\* lines 61-63: a transparent pixel is stepped over
SkipTransparent ==
    /\ pc = "runs"
    /\ y < height
    /\ x < width
    /\ At(grid, y, x) = None
    /\ x' = x + 1
    /\ UNCHANGED << pixel_view, width, height, scale, svg, pixel_group, grid,
                    horizontal_runs, rectangles, y, start_x, end_x, color,
                    opacity, height_run, i, k, svg_file, pc, extracted,
                    absorbed, built, call, first_result, env >>

\* AppendRun putting the run at the front of the list
AppendRunFront ==
    /\ pc = "runs"
    /\ y < height
    /\ x < width
    /\ At(grid, y, x) # None
    /\ start_x' = x
    /\ color' = At(grid, y, x)[1]
    /\ opacity' = At(grid, y, x)[2]
    /\ x' = RunEnd(grid, width, y, x, At(grid, y, x))
    /\ horizontal_runs' =
          << <<y, x, x', color', opacity'>> >> \o horizontal_runs
    /\ UNCHANGED << pixel_view, width, height, scale, svg, pixel_group, grid,
                    rectangles, y, end_x, height_run, i, k, svg_file, pc,
                    extracted, absorbed, built, call, first_result, env >>

\* AppendRun appending the run a second time
AppendRunTwice ==
    /\ pc = "runs"
    /\ y < height
    /\ x < width
    /\ At(grid, y, x) # None
    /\ start_x' = x
    /\ color' = At(grid, y, x)[1]
    /\ opacity' = At(grid, y, x)[2]
    /\ x' = RunEnd(grid, width, y, x, At(grid, y, x))
    /\ horizontal_runs' =
          horizontal_runs
             \o << <<y, x, x', color', opacity'>>, <<y, x, x', color', opacity'>> >>
    /\ UNCHANGED << pixel_view, width, height, scale, svg, pixel_group, grid,
                    rectangles, y, end_x, height_run, i, k, svg_file, pc,
                    extracted, absorbed, built, call, first_result, env >>

\* lines 66-74: a run starts at x, is extended as far as it goes and appended
AppendRun ==
    /\ pc = "runs"
    /\ y < height
    /\ x < width
    /\ At(grid, y, x) # None
    /\ start_x' = x
    /\ color' = At(grid, y, x)[1]
    /\ opacity' = At(grid, y, x)[2]
    /\ x' = RunEnd(grid, width, y, x, At(grid, y, x))
    /\ horizontal_runs' =
          Append(horizontal_runs, <<y, x, x', color', opacity'>>)
    /\ UNCHANGED << pixel_view, width, height, scale, svg, pixel_group, grid,
                    rectangles, y, end_x, height_run, i, k, svg_file, pc,
                    extracted, absorbed, built, call, first_result, env >>

\* lines 58-60: the row is exhausted; the next row starts at column 0
NextRow ==
    /\ pc = "runs"
    /\ y < height
    /\ x >= width
    /\ y + 1 < height
    /\ y' = y + 1
    /\ x' = 0
    /\ UNCHANGED << pixel_view, width, height, scale, svg, pixel_group, grid,
                    horizontal_runs, rectangles, start_x, end_x, color,
                    opacity, height_run, i, k, svg_file, pc, extracted,
                    absorbed, built, call, first_result, env >>

\* lines 58, 77: the last row is exhausted; the second phase starts
RunsDone ==
    /\ pc = "runs"
    /\ x >= width
    /\ y + 1 >= height
    /\ rectangles' = <<>>
    /\ extracted' = horizontal_runs
    /\ pc' = "merge"
    /\ UNCHANGED << pixel_view, width, height, scale, svg, pixel_group, grid,
                    horizontal_runs, x, y, start_x, end_x, color, opacity,
                    height_run, i, k, svg_file, absorbed, built, call,
                    first_result, env >>

\* Matches without the comparison of the colors
MatchesNoColor(run, yy, hr, sx, ex, c, o) ==
    /\ run[1] = yy + hr
    /\ run[2] = sx
    /\ run[3] = ex
    /\ run[5] = o

\* Matches without the comparison of the spans
MatchesNoSpan(run, yy, hr, sx, ex, c, o) ==
    /\ run[1] = yy + hr
    /\ run[4] = c
    /\ run[5] = o

\* Matches accepting any row below the rectangle, not only the next one
MatchesGap(run, yy, hr, sx, ex, c, o) ==
    /\ run[1] >= yy + hr
    /\ run[2] = sx
    /\ run[3] = ex
    /\ run[4] = c
    /\ run[5] = o

\* Matches looking at the row below the seed, whatever the height reached
MatchesFirstRowOnly(run, yy, hr, sx, ex, c, o) ==
    /\ run[1] = yy + 1
    /\ run[2] = sx
    /\ run[3] = ex
    /\ run[4] = c
    /\ run[5] = o

\* lines 90-96: the pending run is directly below the rectangle being built
\* and has its columns, color and opacity
Matches(run, yy, hr, sx, ex, c, o) ==
    /\ run[1] = yy + hr
    /\ run[2] = sx
    /\ run[3] = ex
    /\ run[4] = c
    /\ run[5] = o

\* PopSeed taking the last pending run (pop() for pop(0))
PopSeedLast ==
    /\ pc = "merge"
    /\ horizontal_runs # <<>>
    /\ y' = horizontal_runs[Len(horizontal_runs)][1]
    /\ start_x' = horizontal_runs[Len(horizontal_runs)][2]
    /\ end_x' = horizontal_runs[Len(horizontal_runs)][3]
    /\ color' = horizontal_runs[Len(horizontal_runs)][4]
    /\ opacity' = horizontal_runs[Len(horizontal_runs)][5]
    /\ horizontal_runs' = Pop(horizontal_runs, Len(horizontal_runs) - 1)
    /\ height_run' = 1
    /\ i' = 0
    /\ absorbed' = << horizontal_runs[Len(horizontal_runs)] >>
    /\ pc' = "scan"
    /\ UNCHANGED << pixel_view, width, height, scale, svg, pixel_group, grid,
                    rectangles, x, k, svg_file, extracted, built, call,
                    first_result, env >>

\* PopSeed taking whichever pending run comes up (the iteration order of an
\* unordered collection)
PopSeedAny ==
    /\ pc = "merge"
    /\ horizontal_runs # <<>>
    /\ \E j \in 1..Len(horizontal_runs) :
          /\ y' = horizontal_runs[j][1]
          /\ start_x' = horizontal_runs[j][2]
          /\ end_x' = horizontal_runs[j][3]
          /\ color' = horizontal_runs[j][4]
          /\ opacity' = horizontal_runs[j][5]
          /\ horizontal_runs' = Pop(horizontal_runs, j - 1)
          /\ absorbed' = << horizontal_runs[j] >>
    /\ height_run' = 1
    /\ i' = 0
    /\ pc' = "scan"
    /\ UNCHANGED << pixel_view, width, height, scale, svg, pixel_group, grid,
                    rectangles, x, k, svg_file, extracted, built, call,
                    first_result, env >>

\* lines 78-83: the first pending run seeds a rectangle of height 1
PopSeed ==
    /\ pc = "merge"
    /\ horizontal_runs # <<>>
    /\ y' = horizontal_runs[1][1]
    /\ start_x' = horizontal_runs[1][2]
    /\ end_x' = horizontal_runs[1][3]
    /\ color' = horizontal_runs[1][4]
    /\ opacity' = horizontal_runs[1][5]
    /\ horizontal_runs' = Pop(horizontal_runs, 0)
    /\ height_run' = 1
    /\ i' = 0
    /\ absorbed' = << horizontal_runs[1] >>
    /\ pc' = "scan"
    /\ UNCHANGED << pixel_view, width, height, scale, svg, pixel_group, grid,
                    rectangles, x, k, svg_file, extracted, built, call,
                    first_result, env >>

\* ExtendDown without the removal of the matched run (the scan moves past it)
ExtendDownKeep ==
    /\ pc = "scan"
    /\ i < Len(horizontal_runs)
    /\ Matches(horizontal_runs[i + 1], y, height_run, start_x, end_x, color,
               opacity)
    /\ height_run' = height_run + 1
    /\ i' = i + 1
    /\ absorbed' = Append(absorbed, horizontal_runs[i + 1])
    /\ UNCHANGED << pixel_view, width, height, scale, svg, pixel_group, grid,
                    horizontal_runs, rectangles, x, y, start_x, end_x, color,
                    opacity, k, svg_file, pc, extracted, built, call,
                    first_result, env >>

\* ExtendDown stepping past the run that moved into place i
ExtendDownSkip ==
    /\ pc = "scan"
    /\ i < Len(horizontal_runs)
    /\ Matches(horizontal_runs[i + 1], y, height_run, start_x, end_x, color,
               opacity)
    /\ height_run' = height_run + 1
    /\ horizontal_runs' = Pop(horizontal_runs, i)
    /\ absorbed' = Append(absorbed, horizontal_runs[i + 1])
    /\ i' = i + 1
    /\ UNCHANGED << pixel_view, width, height, scale, svg, pixel_group, grid,
                    rectangles, x, y, start_x, end_x, color, opacity, k,
                    svg_file, pc, extracted, built, call, first_result, env >>

\* lines 84-99: pending run i matches; it is removed and the rectangle grows
ExtendDown ==
    /\ pc = "scan"
    /\ i < Len(horizontal_runs)
    /\ Matches(horizontal_runs[i + 1], y, height_run, start_x, end_x, color,
               opacity)
    /\ height_run' = height_run + 1
    /\ horizontal_runs' = Pop(horizontal_runs, i)
    /\ absorbed' = Append(absorbed, horizontal_runs[i + 1])
    /\ UNCHANGED << pixel_view, width, height, scale, svg, pixel_group, grid,
                    rectangles, x, y, start_x, end_x, color, opacity, i, k,
                    svg_file, pc, extracted, built, call, first_result, env >>

\* ScanNext ending the scan at the first run that does not match
ScanNextBreak ==
    /\ pc = "scan"
    /\ i < Len(horizontal_runs)
    /\ ~Matches(horizontal_runs[i + 1], y, height_run, start_x, end_x, color,
                opacity)
    /\ i' = Len(horizontal_runs)
    /\ UNCHANGED << pixel_view, width, height, scale, svg, pixel_group, grid,
                    horizontal_runs, rectangles, x, y, start_x, end_x, color,
                    opacity, height_run, k, svg_file, pc, extracted, absorbed,
                    built, call, first_result, env >>

\* ScanNext without the increment of i
ScanNextStay ==
    /\ pc = "scan"
    /\ i < Len(horizontal_runs)
    /\ ~Matches(horizontal_runs[i + 1], y, height_run, start_x, end_x, color,
                opacity)
    /\ i' = i
    /\ UNCHANGED << pixel_view, width, height, scale, svg, pixel_group, grid,
                    horizontal_runs, rectangles, x, y, start_x, end_x, color,
                    opacity, height_run, k, svg_file, pc, extracted, absorbed,
                    built, call, first_result, env >>

\* ScanNext removing the run that does not match, as if it had matched
ScanNextDrop ==
    /\ pc = "scan"
    /\ i < Len(horizontal_runs)
    /\ ~Matches(horizontal_runs[i + 1], y, height_run, start_x, end_x, color,
                opacity)
    /\ horizontal_runs' = Pop(horizontal_runs, i)
    /\ UNCHANGED << pixel_view, width, height, scale, svg, pixel_group, grid,
                    rectangles, x, y, start_x, end_x, color, opacity,
                    height_run, i, k, svg_file, pc, extracted, absorbed,
                    built, call, first_result, env >>

\* lines 84-101: pending run i does not match; the scan moves on
ScanNext ==
    /\ pc = "scan"
    /\ i < Len(horizontal_runs)
    /\ ~Matches(horizontal_runs[i + 1], y, height_run, start_x, end_x, color,
                opacity)
    /\ i' = i + 1
    /\ UNCHANGED << pixel_view, width, height, scale, svg, pixel_group, grid,
                    horizontal_runs, rectangles, x, y, start_x, end_x, color,
                    opacity, height_run, k, svg_file, pc, extracted, absorbed,
                    built, call, first_result, env >>

\* AppendRectangle handing the rectangle to the document at once
AppendRectangleEmit ==
    /\ pc = "scan"
    /\ i >= Len(horizontal_runs)
    /\ rectangles' =
          Append(rectangles,
                 <<start_x, y, end_x - start_x, height_run, color, opacity>>)
    /\ pixel_group' =
          Append(pixel_group,
                 << <<"x", IntStr(start_x * scale)>>, <<"y", IntStr(y * scale)>> >>)
    /\ built' = Append(built, absorbed)
    /\ pc' = "merge"
    /\ UNCHANGED << pixel_view, width, height, scale, svg, grid,
                    horizontal_runs, x, y, start_x, end_x, color, opacity,
                    height_run, i, k, svg_file, extracted, absorbed, call,
                    first_result, env >>

\* line 104: the scan is over; the rectangle is final
AppendRectangle ==
    /\ pc = "scan"
    /\ i >= Len(horizontal_runs)
    /\ rectangles' =
          Append(rectangles,
                 <<start_x, y, end_x - start_x, height_run, color, opacity>>)
    /\ built' = Append(built, absorbed)
    /\ pc' = "merge"
    /\ UNCHANGED << pixel_view, width, height, scale, svg, pixel_group, grid,
                    horizontal_runs, x, y, start_x, end_x, color, opacity,
                    height_run, i, k, svg_file, extracted, absorbed, call,
                    first_result, env >>

\* lines 78, 107: no run is pending; the emitting loop starts
MergeDone ==
    /\ pc = "merge"
    /\ horizontal_runs = <<>>
    /\ k' = 0
    /\ pc' = "emit"
    /\ UNCHANGED << pixel_view, width, height, scale, svg, pixel_group, grid,
                    horizontal_runs, rectangles, x, y, start_x, end_x, color,
                    opacity, height_run, i, svg_file, extracted, absorbed,
                    built, call, first_result, env >>

\* RectElement with the overlap added before the scaling: (w + 0.5) * s
RectElementOverlapScaled(rect, s) ==
    LET base ==
            << <<"x", IntStr(rect[1] * s)>>,
               <<"y", IntStr(rect[2] * s)>>,
               <<"width", FloatStr((2 * rect[3] + 1) * s)>>,
               <<"height", FloatStr((2 * rect[4] + 1) * s)>>,
               <<"fill", rect[5]>>,
               <<"stroke", rect[5]>>,
               <<"stroke-width", "0.5">> >>
    IN  IF BelowOne(rect[6])
        THEN base \o << <<"fill-opacity", OpacityStr(rect[6])>>,
                        <<"stroke-opacity", OpacityStr(rect[6])>> >>
        ELSE base

\* RectElement setting the opacity attributes whatever the opacity
\* (opacity <= 1.0 for opacity < 1.0)
RectElementOpacityAlways(rect, s) ==
    << <<"x", IntStr(rect[1] * s)>>,
       <<"y", IntStr(rect[2] * s)>>,
       <<"width", FloatStr(2 * (rect[3] * s) + 1)>>,
       <<"height", FloatStr(2 * (rect[4] * s) + 1)>>,
       <<"fill", rect[5]>>,
       <<"stroke", rect[5]>>,
       <<"stroke-width", "0.5">>,
       <<"fill-opacity", OpacityStr(rect[6])>>,
       <<"stroke-opacity", OpacityStr(rect[6])>> >>

\* lines 108-124: the rect element of one rectangle at scale s
RectElement(rect, s) ==
    LET base ==
            << <<"x", IntStr(rect[1] * s)>>,
               <<"y", IntStr(rect[2] * s)>>,
               <<"width", FloatStr(2 * (rect[3] * s) + 1)>>,
               <<"height", FloatStr(2 * (rect[4] * s) + 1)>>,
               <<"fill", rect[5]>>,
               <<"stroke", rect[5]>>,
               <<"stroke-width", "0.5">> >>
    IN  IF BelowOne(rect[6])
        THEN base \o << <<"fill-opacity", OpacityStr(rect[6])>>,
                        <<"stroke-opacity", OpacityStr(rect[6])>> >>
        ELSE base

\* lines 107-124: the next rectangle becomes a child of the group
EmitRect ==
    /\ pc = "emit"
    /\ k < Len(rectangles)
    /\ x' = rectangles[k + 1][1]
    /\ y' = rectangles[k + 1][2]
    /\ color' = rectangles[k + 1][5]
    /\ opacity' = rectangles[k + 1][6]
    /\ pixel_group' = Append(pixel_group, RectElement(rectangles[k + 1], scale))
    /\ k' = k + 1
    /\ UNCHANGED << pixel_view, width, height, scale, svg, grid,
                    horizontal_runs, rectangles, start_x, end_x, height_run,
                    i, svg_file, pc, extracted, absorbed, built, call,
                    first_result, env >>

\* the attributes of an element as they are written:  name="value" ...
RECURSIVE AttrText(_)
AttrText(attrs) ==
    IF attrs = <<>> THEN ""
    ELSE " " \o attrs[1][1] \o "=\"" \o attrs[1][2] \o "\"" \o AttrText(Tail(attrs))

\* lines 127-131: ET.tostring, minidom.parseString, toprettyxml(indent="  "),
\* split at the line breaks
PrettyLines(element, group) ==
    << "<?xml version=\"1.0\" ?>", "<svg" \o AttrText(element) \o ">" >>
    \o (IF group = <<>> THEN << "  <g/>" >>
        ELSE << "  <g>" >>
             \o [ j \in 1..Len(group) |-> "    <rect" \o AttrText(group[j]) \o "/>" ]
             \o << "  </g>" >>)
    \o << "</svg>", "" >>

\* lines 126-138: the document without its first line is written to svg_path
\* (svg_file holds the lines that "\n".join puts together)
WriteFile ==
    /\ pc = "emit"
    /\ k >= Len(rectangles)
    /\ svg_file' = Tail(PrettyLines(svg, pixel_group))
    /\ pc' = "done"
    /\ UNCHANGED << pixel_view, width, height, scale, svg, pixel_group, grid,
                    horizontal_runs, rectangles, x, y, start_x, end_x, color,
                    opacity, height_run, i, k, extracted, absorbed, built,
                    call, first_result, env >>

\* an exception leaves png2svg: the frame and every local of it are gone
FrameDropped ==
    /\ svg' = <<>>
    /\ pixel_group' = <<>>
    /\ grid' = <<>>
    /\ horizontal_runs' = <<>>
    /\ rectangles' = <<>>
    /\ x' = 0 /\ y' = 0 /\ start_x' = 0 /\ end_x' = 0
    /\ color' = "" /\ opacity' = <<0, 255>>
    /\ height_run' = 0 /\ i' = 0 /\ k' = 0
    /\ extracted' = <<>>
    /\ absorbed' = <<>>
    /\ built' = <<>>
    /\ pc' = "raised"

\* lines 12-135: a statement before open() raises (the image does not decode,
\* memory runs out in a loop, the document does not serialize); nothing in
\* the function catches it
Raise ==
    /\ pc \in {"root", "grid", "runs", "merge", "scan", "emit"}
    /\ error' = IF pc \in {"root", "grid"} THEN "decode"
                ELSE IF pc = "emit" /\ k >= Len(rectangles) THEN "encode"
                ELSE "memory"
    /\ FrameDropped
    /\ UNCHANGED << pixel_view, width, height, scale, svg_file, call,
                    first_result, batch, cursors, images >>

\* lines 137-138: open(svg_path, "w") creates or truncates the file, then
\* write or the closing flush raises with n lines on the disk; the with
\* statement closes the file and removes nothing
WriteFails ==
    /\ pc = "emit"
    /\ k >= Len(rectangles)
    /\ \E n \in 0..(Len(Tail(PrettyLines(svg, pixel_group))) - 1) :
          svg_file' = IF n = 0 THEN << "" >>
                      ELSE SubSeq(Tail(PrettyLines(svg, pixel_group)), 1, n)
    /\ error' = "write"
    /\ FrameDropped
    /\ UNCHANGED << pixel_view, width, height, scale, call, first_result,
                    batch, cursors, images >>

\* png2svg is called once more on the same image with the same scale; the
\* locals of the new call are fresh
CallAgain ==
    /\ pc = "done"
    /\ call = 1
    /\ call' = 2
    /\ first_result' = << extracted, rectangles, svg_file >>
    /\ svg' = <<>>
    /\ pixel_group' = <<>>
    /\ grid' = <<>>
    /\ horizontal_runs' = <<>>
    /\ rectangles' = <<>>
    /\ x' = 0 /\ y' = 0 /\ start_x' = 0 /\ end_x' = 0
    /\ color' = "" /\ opacity' = <<0, 255>>
    /\ height_run' = 0 /\ i' = 0 /\ k' = 0
    /\ svg_file' = <<>>
    /\ pc' = "root"
    /\ extracted' = <<>>
    /\ absorbed' = <<>>
    /\ built' = <<>>
    /\ UNCHANGED << pixel_view, width, height, scale, env >>

Next ==
    \/ CreateRoot
    \/ BuildGrid
    \/ SkipTransparent
    \/ AppendRun
    \/ NextRow
    \/ RunsDone
    \/ PopSeed
    \/ ExtendDown
    \/ ScanNext
    \/ AppendRectangle
    \/ MergeDone
    \/ EmitRect
    \/ WriteFile

Spec == Init /\ [][Next]_vars

\* the same conversion, called twice in a row
NextTwice ==
    \/ Next
    \/ CallAgain

SpecTwice == Init /\ [][NextTwice]_vars

\* the conversion with the exceptions its statements can raise
NextFail ==
    \/ Next
    \/ Raise
    \/ WriteFails

SpecFail == InitFail /\ [][NextFail]_vars

\* ------------------------------------------------- process_directory
\* a path is the sequence of its pieces: names, extensions and separators
Dot == << "." >>

\* the file names of the input tree
Names ==
    { <<"a", ".png">>, <<"a", ".PNG">>, <<"a", ".Png">>, <<"a", ".svg">>,
      <<"a", ".txt">> }

\* the subdirectories input_dir can have
SubDirs == { <<"d">>, <<"d", ".png">> }

\* str.lower() on a piece
Lower(piece) == IF piece \in {".PNG", ".Png"} THEN ".png" ELSE piece

\* file.lower().endswith(".png")
EndsWithPng(file) == Lower(file[Len(file)]) = ".png"

\* str.replace(old, new): every occurrence, wherever it is in the path
Replace(path, old, new) ==
    [j \in 1..Len(path) |-> IF path[j] = old THEN new ELSE path[j]]

\* os.path.join(output_dir, rel_path)
OutSubdir(rel_path) == << "out", "/" >> \o rel_path

\* os.path.join(out_subdir, file)
DestPath(rel_path, file) == OutSubdir(rel_path) \o << "/" >> \o file

\* line 161
SvgPath(rel_path, file) ==
    Replace(Replace(DestPath(rel_path, file), ".png", ".svg"), ".PNG", ".svg")

\* the directory open(svg_path, "w") needs
SvgDir(rel_path) ==
    Replace(Replace(OutSubdir(rel_path), ".png", ".svg"), ".PNG", ".svg")

\* writing path replaces what was there
Written(path, content) ==
    { e \in output : e[1] # path } \cup { <<path, content>> }

\* process_directory is called on a tree of at most one subdirectory, in
\* which at most one image does not decode; png2svg is not running
InitBatch ==
    /\ width = 1 /\ height = 1 /\ scale = 1
    /\ pixel_view = << 0, 0, 0, 0 >>
    /\ FreshCall
    /\ svg_file = <<>>
    /\ pc = "idle"
    /\ \E rf \in SUBSET Names, sub \in SUBSET SubDirs, sf \in SUBSET Names :
          /\ Cardinality(rf) <= MaxFiles
          /\ Cardinality(sf) <= MaxFiles
          /\ Cardinality(sub) <= 1
          /\ sub = {} => sf = {}
          /\ input_dirs = {Dot} \cup sub
          /\ input_files = { <<Dot, f>> : f \in rf }
                              \cup { <<d, f>> : d \in sub, f \in sf }
    /\ \E b \in SUBSET { e \in input_files : EndsWithPng(e[2]) } :
          /\ Cardinality(b) <= 1
          /\ broken = b
    /\ walk = <<>>
    /\ root = <<>>
    /\ files = {}
    /\ out_dirs = {}
    /\ output = {}
    /\ log = {}
    /\ dpc = "start"
    /\ CursorsIdle
    /\ ImagesIdle

\* lines 143-146: output_dir is made and os.walk starts at input_dir
MakeOutputDir ==
    /\ dpc = "start"
    /\ out_dirs' = { OutSubdir(Dot) }
    /\ \E order \in [1..Cardinality(input_dirs) -> input_dirs] :
          /\ order[1] = Dot
          /\ \A m, n \in DOMAIN order : m # n => order[m] # order[n]
          /\ walk' = order
    /\ dpc' = "walk"
    /\ UNCHANGED << conversion, cursors, images, error, input_dirs, input_files, broken, root,
                    files, output, log >>

\* lines 146-152: os.walk yields the next directory; its mirror is made
EnterDir ==
    /\ dpc = "walk"
    /\ files = {}
    /\ walk # <<>>
    /\ root' = Head(walk)
    /\ walk' = Tail(walk)
    /\ files' = { e[2] : e \in { e \in input_files : e[1] = Head(walk) } }
    /\ out_dirs' = out_dirs \cup { OutSubdir(Head(walk)) }
    /\ UNCHANGED << conversion, cursors, images, error, input_dirs, input_files, broken,
                    output, log, dpc >>

\* lines 159-163: an image file goes through png2svg, which writes svg_path
ConvertFile ==
    /\ dpc = "walk"
    /\ \E file \in files :
          /\ EndsWithPng(file)
          /\ <<root, file>> \notin broken
          /\ SvgDir(root) \in out_dirs
          /\ output' = Written(SvgPath(root, file), <<"svg", root, file>>)
          /\ log' = log \cup
                       { <<"Converted", <<root, file>>, SvgPath(root, file)>> }
          /\ files' = files \ {file}
    /\ UNCHANGED << conversion, cursors, images, error, input_dirs, input_files, broken, walk,
                    root, out_dirs, dpc >>

\* line 162: png2svg raises, for an image that does not decode or for a
\* svg_path in a directory that does not exist; nothing catches it and the
\* walk is over
ConvertRaises ==
    /\ dpc = "walk"
    /\ \E file \in files :
          /\ EndsWithPng(file)
          /\ \/ /\ <<root, file>> \in broken
                /\ error' = "decode"
             \/ /\ <<root, file>> \notin broken
                /\ SvgDir(root) \notin out_dirs
                /\ error' = "open"
    /\ dpc' = "aborted"
    /\ UNCHANGED << conversion, cursors, images, input_dirs, input_files, broken, walk, root,
                    files, out_dirs, output, log >>

\* lines 164-167: every other file is copied to dest_path
CopyFile ==
    /\ dpc = "walk"
    /\ \E file \in files :
          /\ ~EndsWithPng(file)
          /\ output' = Written(DestPath(root, file), <<"bytes", root, file>>)
          /\ log' = log \cup
                       { <<"Copied", <<root, file>>, DestPath(root, file)>> }
          /\ files' = files \ {file}
    /\ UNCHANGED << conversion, cursors, images, error, input_dirs, input_files, broken, walk,
                    root, out_dirs, dpc >>

\* line 146: os.walk has no directory left; process_directory returns
WalkDone ==
    /\ dpc = "walk"
    /\ root # <<>>
    /\ files = {}
    /\ walk = <<>>
    /\ dpc' = "finished"
    /\ UNCHANGED << conversion, cursors, images, error, input_dirs, input_files, broken, walk,
                    root, files, out_dirs, output, log >>

NextBatch ==
    \/ MakeOutputDir
    \/ EnterDir
    \/ ConvertFile
    \/ ConvertRaises
    \/ CopyFile
    \/ WalkDone

SpecBatch == InitBatch /\ [][NextBatch]_vars

\* ------------------------------------------------- convertcursors.main
\* ThemeConfig(...): the fields that concern directories, at their defaults
ThemeConfig ==
    [TEMP_EXTRACT_DIR |-> "", EXTRACTED_ZIP_DIRS |-> <<>>, INF_DIR |-> NoDir]

\* an .inf file lies in directory number dir
HasInf(dir) == IF dir = 0 THEN input_has.inf ELSE zips[dir].inf

\* the cursor file of the mapping lies in directory number dir
HasCursor(dir) == IF dir = 0 THEN input_has.cursor ELSE zips[dir].cursor

\* the first directory of a list that satisfies a test, NoDir when none does
RECURSIVE FirstInf(_)
FirstInf(dirs) ==
    IF dirs = <<>> THEN NoDir
    ELSE IF HasInf(Head(dirs)) THEN Head(dirs)
    ELSE FirstInf(Tail(dirs))

RECURSIVE FirstCursor(_)
FirstCursor(dirs) ==
    IF dirs = <<>> THEN NoDir
    ELSE IF HasCursor(Head(dirs)) THEN Head(dirs)
    ELSE FirstCursor(Tail(dirs))

\* main is entered on an existing input_dir; neither png2svg nor
\* process_directory is running
InitCursors ==
    /\ width = 1 /\ height = 1 /\ scale = 1
    /\ pixel_view = << 0, 0, 0, 0 >>
    /\ FreshCall
    /\ svg_file = <<>>
    /\ pc = "idle"
    /\ BatchIdle
    /\ input_has \in [inf : BOOLEAN, cursor : BOOLEAN]
    /\ \E n \in 0..MaxZips :
          zips \in [1..n -> [inf : BOOLEAN, cursor : BOOLEAN, extracts : BOOLEAN]]
    /\ inf_kind \in {"ok", "no_strings", "unparsable"}
    /\ temp_on_disk = FALSE
    /\ temp_extract_dir = ""
    /\ dirs_to_search = <<>>
    /\ extracted_zip_dirs = <<>>
    /\ z = 0
    /\ inf_dir = NoDir
    /\ theme_config = None
    /\ main_theme_config = None
    /\ found = NoDir
    /\ exit_code = NoDir
    /\ cpc = "start"
    /\ ImagesIdle

\* convertcursors.py lines 45-58: the first ThemeConfig, mkdtemp, the lists
Mkdtemp ==
    /\ cpc = "start"
    /\ temp_extract_dir' = "tmp"
    /\ temp_on_disk' = TRUE
    /\ theme_config' = [ThemeConfig EXCEPT !.TEMP_EXTRACT_DIR = "tmp"]
    /\ dirs_to_search' = << 0 >>
    /\ extracted_zip_dirs' = <<>>
    /\ z' = 1
    /\ cpc' = "zips"
    /\ UNCHANGED << conversion, batch, images, error, input_has, zips, inf_kind,
                    inf_dir, main_theme_config, found, exit_code >>

\* lines 61-100: one zip file is extracted under the temporary directory; a
\* failure is reported and the loop goes on
ExtractZip ==
    /\ cpc = "zips"
    /\ z <= Len(zips)
    /\ IF zips[z].extracts
       THEN /\ dirs_to_search' = Append(dirs_to_search, z)
            /\ extracted_zip_dirs' = Append(extracted_zip_dirs, z)
       ELSE UNCHANGED << dirs_to_search, extracted_zip_dirs >>
    /\ z' = z + 1
    /\ UNCHANGED << conversion, batch, images, error, input_has, zips, inf_kind,
                    temp_on_disk, temp_extract_dir, inf_dir, theme_config,
                    main_theme_config, found, exit_code, cpc >>

\* lines 103-162: the first .inf file of the directories to search; its
\* directory and the extracted directories go into the ThemeConfig
FindInf ==
    /\ cpc = "zips"
    /\ z > Len(zips)
    /\ FirstInf(dirs_to_search) # NoDir
    /\ inf_dir' = FirstInf(dirs_to_search)
    /\ theme_config' = [theme_config EXCEPT
                           !.EXTRACTED_ZIP_DIRS = extracted_zip_dirs,
                           !.INF_DIR = FirstInf(dirs_to_search)]
    /\ cpc' = "parse"
    /\ UNCHANGED << conversion, batch, images, error, input_has, zips, inf_kind,
                    temp_on_disk, temp_extract_dir, dirs_to_search,
                    extracted_zip_dirs, z, main_theme_config, found,
                    exit_code >>

\* lines 148-153: no .inf file: the temporary directory is removed and
\* sys.exit(1) leaves parse_install_inf
NoInfExit ==
    /\ cpc = "zips"
    /\ z > Len(zips)
    /\ FirstInf(dirs_to_search) = NoDir
    /\ temp_on_disk' = FALSE
    /\ exit_code' = 1
    /\ cpc' = "finally"
    /\ UNCHANGED << conversion, batch, images, error, input_has, zips, inf_kind,
                    temp_extract_dir, dirs_to_search, extracted_zip_dirs, z,
                    inf_dir, theme_config, main_theme_config, found >>

\* lines 164-174: ParseFile raises, which main's except turns into
\* sys.exit(1), or the [Strings] section is missing and parse_install_inf
\* calls sys.exit(1) itself; main's theme_config was never assigned
ParseFails ==
    /\ cpc = "parse"
    /\ inf_kind # "ok"
    /\ error' = IF inf_kind = "unparsable" THEN "parse" ELSE error
    /\ exit_code' = 1
    /\ cpc' = "finally"
    /\ UNCHANGED << conversion, batch, images, input_has, zips, inf_kind,
                    temp_on_disk, temp_extract_dir, dirs_to_search,
                    extracted_zip_dirs, z, inf_dir, theme_config,
                    main_theme_config, found >>

\* lines 216-353 and main's assignment: a second ThemeConfig replaces the
\* first, gets INF_DIR and is returned
ReturnConfig ==
    /\ cpc = "parse"
    /\ inf_kind = "ok"
    /\ theme_config' = [ThemeConfig EXCEPT !.INF_DIR = inf_dir]
    /\ main_theme_config' = [ThemeConfig EXCEPT !.INF_DIR = inf_dir]
    /\ cpc' = "images"
    /\ UNCHANGED << conversion, batch, images, error, input_has, zips, inf_kind,
                    temp_on_disk, temp_extract_dir, dirs_to_search,
                    extracted_zip_dirs, z, inf_dir, found, exit_code >>

\* lines 492-608: the cursor file is looked for in INF_DIR, then in the
\* EXTRACTED_ZIP_DIRS of the ThemeConfig main passes in
ExtractCursorImages ==
    /\ cpc = "images"
    /\ found' = FirstCursor(<< main_theme_config.INF_DIR >>
                            \o main_theme_config.EXTRACTED_ZIP_DIRS)
    /\ exit_code' = 0
    /\ cpc' = "finally"
    /\ UNCHANGED << conversion, batch, images, error, input_has, zips, inf_kind,
                    temp_on_disk, temp_extract_dir, dirs_to_search,
                    extracted_zip_dirs, z, inf_dir, theme_config,
                    main_theme_config >>

\* main, the except clause: a step after parse_install_inf raises and
\* sys.exit(1) follows
StepRaises ==
    /\ cpc = "images"
    /\ error' = "unexpected"
    /\ exit_code' = 1
    /\ cpc' = "finally"
    /\ UNCHANGED << conversion, batch, images, input_has, zips, inf_kind,
                    temp_on_disk, temp_extract_dir, dirs_to_search,
                    extracted_zip_dirs, z, inf_dir, theme_config,
                    main_theme_config, found >>

\* main, the finally clause: the directory is removed when main's
\* theme_config is set and names one
Finally ==
    /\ cpc = "finally"
    /\ temp_on_disk' =
          IF main_theme_config # None /\ main_theme_config.TEMP_EXTRACT_DIR # ""
          THEN FALSE
          ELSE temp_on_disk
    /\ cpc' = "exited"
    /\ UNCHANGED << conversion, batch, images, error, input_has, zips, inf_kind,
                    temp_extract_dir, dirs_to_search, extracted_zip_dirs, z,
                    inf_dir, theme_config, main_theme_config, found,
                    exit_code >>

NextCursors ==
    \/ Mkdtemp
    \/ ExtractZip
    \/ FindInf
    \/ NoInfExit
    \/ ParseFails
    \/ ReturnConfig
    \/ ExtractCursorImages
    \/ StepRaises
    \/ Finally

SpecCursors == InitCursors /\ [][NextCursors]_vars

\* ------------------------------------------------- the merge on any order
\* png2svg at its default scale on a small image
InitShuffled ==
    /\ ImageInput
    /\ width * height <= MaxShuffleCells
    /\ scale = 1
    /\ FreshCall
    /\ svg_file = <<>>
    /\ pc = "root"
    /\ BatchIdle
    /\ CursorsIdle
    /\ ImagesIdle

\* lines 76-78: the merge loop is handed the runs in another order
Shuffle ==
    /\ pc = "merge"
    /\ rectangles = <<>>
    /\ \E f \in [1..Len(horizontal_runs) -> 1..Len(horizontal_runs)] :
          /\ \A m, n \in DOMAIN f : m # n => f[m] # f[n]
          /\ horizontal_runs' = [ n \in DOMAIN f |-> horizontal_runs[f[n]] ]
    /\ UNCHANGED << pixel_view, width, height, scale, svg, pixel_group, grid,
                    rectangles, x, y, start_x, end_x, color, opacity,
                    height_run, i, k, svg_file, pc, extracted, absorbed,
                    built, call, first_result, env >>

NextShuffled ==
    \/ Next
    \/ Shuffle

SpecShuffled == InitShuffled /\ [][NextShuffled]_vars

\* the conversion as the interpreter runs it: the next statement is executed
\* as long as there is one
SpecFair == Init /\ [][Next]_vars /\ WF_vars(Next)

\* ------------------------------------- extract_cursor_images and metadata
\* three of the cursor types of line 220, in the order of standard_mappings
CursorOrder == << "pointer", "text", "pin" >>

CursorTypes == { "pointer", "text", "pin" }

\* standard_mappings, lines 242-291, each list cut to two names; "pin" has
\* none
StandardMappings ==
    [ t \in CursorTypes |->
        IF t = "pointer" THEN << "default", "arrow" >>
        ELSE IF t = "text" THEN << "xterm", "ibeam" >>
        ELSE <<>> ]

\* what the search for <name>.ani or <name>.cur ends with: no file, a file
\* that process_cursor_file converts, or one it fails on
FileKinds == { "none", "good", "bad" }

\* lines 496-511: the cursor types with a list of symlinks and a mapping, in
\* the order of cursor_symlinks
RECURSIVE Mapped(_, _)
Mapped(types, mappings) ==
    IF types = <<>> THEN <<>>
    ELSE (IF StandardMappings[Head(types)] # <<>> /\ Head(types) \in mappings
          THEN << Head(types) >> ELSE <<>>)
         \o Mapped(Tail(types), mappings)

\* the output name of a cursor type: the first of its symlinks
OutputName(t) == StandardMappings[t][1]

\* parse_install_inf has returned: every cursor type has its default hotspot
\* (lines 312-320), and some have a file name from the INF file (lines
\* 325-346)
InitImages ==
    /\ width = 1 /\ height = 1 /\ scale = 1
    /\ pixel_view = << 0, 0, 0, 0 >>
    /\ FreshCall
    /\ svg_file = <<>>
    /\ pc = "idle"
    /\ BatchIdle
    /\ CursorsIdle
    /\ cursor_files \in [CursorTypes -> [ani : FileKinds, cur : FileKinds]]
    /\ cursor_mappings \in SUBSET CursorTypes
    /\ cursor_hotspots = [ t \in CursorTypes |-> "default" ]
    /\ processed_mappings = <<>>
    /\ total_count = 0
    /\ success_count = 0
    /\ calls = {}
    /\ svg_made = {}
    /\ metadata = {}
    /\ ipc = "start"

\* lines 493-511: processed_mappings and total_count
BuildMappings ==
    /\ ipc = "start"
    /\ processed_mappings' = Mapped(CursorOrder, cursor_mappings)
    /\ total_count' = Len(Mapped(CursorOrder, cursor_mappings))
    /\ success_count' = 0
    /\ ipc' = "loop"
    /\ UNCHANGED << conversion, error, batch, cursors, cursor_files,
                    cursor_mappings, cursor_hotspots, calls, svg_made, metadata >>

\* lines 387-490: process_cursor_file on the file of kind kind; an exception
\* is caught and False returned, and the hotspot may have been set before it
Processed(t, ext, kind) ==
    /\ calls' = calls \cup { << t, ext, kind = "good" >> }
    /\ svg_made' = IF kind = "good" THEN svg_made \cup { OutputName(t) }
                   ELSE svg_made
    /\ \E set \in BOOLEAN :
          /\ kind = "good" => set
          /\ cursor_hotspots' =
                IF set THEN [cursor_hotspots EXCEPT ![t] = "image"]
                ELSE cursor_hotspots

\* ProcessAni counting the file that was found, whatever the call returned
ProcessAniCountsFound ==
    /\ ipc = "loop"
    /\ processed_mappings # <<>>
    /\ cursor_files[Head(processed_mappings)].ani # "none"
    /\ Processed(Head(processed_mappings), "ani",
                 cursor_files[Head(processed_mappings)].ani)
    /\ success_count' = success_count + 1
    /\ processed_mappings' = Tail(processed_mappings)
    /\ UNCHANGED << conversion, error, batch, cursors, cursor_files,
                    cursor_mappings, total_count, metadata, ipc >>

\* lines 513-560: the .ani file is found and processed; the loop goes to the
\* next cursor type whatever the call returned
ProcessAni ==
    /\ ipc = "loop"
    /\ processed_mappings # <<>>
    /\ cursor_files[Head(processed_mappings)].ani # "none"
    /\ Processed(Head(processed_mappings), "ani",
                 cursor_files[Head(processed_mappings)].ani)
    /\ success_count' =
          IF cursor_files[Head(processed_mappings)].ani = "good"
          THEN success_count + 1 ELSE success_count
    /\ processed_mappings' = Tail(processed_mappings)
    /\ UNCHANGED << conversion, error, batch, cursors, cursor_files,
                    cursor_mappings, total_count, metadata, ipc >>

\* lines 562-595: no .ani file; the .cur file is found and processed
ProcessCur ==
    /\ ipc = "loop"
    /\ processed_mappings # <<>>
    /\ cursor_files[Head(processed_mappings)].ani = "none"
    /\ cursor_files[Head(processed_mappings)].cur # "none"
    /\ Processed(Head(processed_mappings), "cur",
                 cursor_files[Head(processed_mappings)].cur)
    /\ success_count' =
          IF cursor_files[Head(processed_mappings)].cur = "good"
          THEN success_count + 1 ELSE success_count
    /\ processed_mappings' = Tail(processed_mappings)
    /\ UNCHANGED << conversion, error, batch, cursors, cursor_files,
                    cursor_mappings, total_count, metadata, ipc >>

\* lines 597-603: neither file is found; a warning is printed
CursorNotFound ==
    /\ ipc = "loop"
    /\ processed_mappings # <<>>
    /\ cursor_files[Head(processed_mappings)].ani = "none"
    /\ cursor_files[Head(processed_mappings)].cur = "none"
    /\ processed_mappings' = Tail(processed_mappings)
    /\ UNCHANGED << conversion, error, batch, cursors, cursor_files,
                    cursor_mappings, cursor_hotspots, total_count, success_count, calls,
                    svg_made, metadata, ipc >>

\* lines 605-607: the loop is over and extract_cursor_images returns
ExtractionDone ==
    /\ ipc = "loop"
    /\ processed_mappings = <<>>
    /\ ipc' = "metadata"
    /\ UNCHANGED << conversion, error, batch, cursors, cursor_files,
                    cursor_mappings, cursor_hotspots, processed_mappings, total_count,
                    success_count, calls, svg_made, metadata >>

\* lines 613-676: a cursor entry for every mapped cursor type that has a
\* hotspot and a symlink
CreateMetadataToml ==
    /\ ipc = "metadata"
    /\ metadata' =
          { OutputName(t) :
              t \in { u \in cursor_mappings :
                         /\ u \in DOMAIN cursor_hotspots
                         /\ StandardMappings[u] # <<>> } }
    /\ ipc' = "end"
    /\ UNCHANGED << conversion, error, batch, cursors, cursor_files,
                    cursor_mappings, cursor_hotspots, processed_mappings, total_count,
                    success_count, calls, svg_made >>

NextImages ==
    \/ BuildMappings
    \/ ProcessAni
    \/ ProcessCur
    \/ CursorNotFound
    \/ ExtractionDone
    \/ CreateMetadataToml

SpecImages == InitImages /\ [][NextImages]_vars

\* the conversion as main starts it, with the scale of the command line
SpecAnyScale == InitAnyScale /\ [][Next]_vars
\* ------------------------------------------------------------- claims
\* the RGBA sample of the source pixel at column xx, row yy
Sample(xx, yy) ==
    LET idx == (yy * width + xx) * 4
    IN  << pixel_view[idx + 1], pixel_view[idx + 2], pixel_view[idx + 3],
           pixel_view[idx + 4] >>

Coords == (0..(width - 1)) \X (0..(height - 1))

\* the coordinates whose alpha is not 0
NonTransparent == { c \in Coords : Sample(c[1], c[2])[4] # 0 }

\* the color rgb(r,g,b) and the opacity alpha/255 of a sample
ColorName(s) ==
    "rgb(" \o IntStr(s[1]) \o "," \o IntStr(s[2]) \o "," \o IntStr(s[3]) \o ")"

OpacityOf(s) == << s[4], 255 >>

\* the pixels a rectangle covers
Footprint(rect) ==
    (rect[1]..(rect[1] + rect[3] - 1)) \X (rect[2]..(rect[2] + rect[4] - 1))

\* the second phase has consumed every run
MergeComplete == pc \in {"emit", "done"}

\* C1: when the merge phase is over, the rectangles are pairwise
\* non-overlapping and the union of their footprints is exactly the set of
\* coordinates whose alpha is not 0.
C1_CoverageWithoutOverlap ==
    MergeComplete =>
        /\ \A a, b \in 1..Len(rectangles) :
              a # b => Footprint(rectangles[a]) \cap Footprint(rectangles[b]) = {}
        /\ UNION { Footprint(rectangles[j]) : j \in 1..Len(rectangles) }
              = NonTransparent

\* a finished conversion with a transparent pixel, a rectangle of several rows
\* and more than one rectangle
C1_Witness ==
    /\ pc = "done"
    /\ NonTransparent # Coords
    /\ Len(rectangles) >= 2
    /\ \E j \in 1..Len(rectangles) : rectangles[j][4] >= 2

\* C2: when the merge phase is over, every pixel with alpha > 0 lies in exactly
\* one rectangle, which carries that pixel's rgb(r,g,b) and alpha/255; and
\* every pixel of a rectangle's footprint is a pixel of the grid with the
\* rectangle's color and opacity.
C2_ExactReproduction ==
    MergeComplete =>
        /\ \A c \in NonTransparent :
              LET holders == { j \in 1..Len(rectangles) :
                                  c \in Footprint(rectangles[j]) }
              IN  /\ Cardinality(holders) = 1
                  /\ \A j \in holders :
                        /\ rectangles[j][5] = ColorName(Sample(c[1], c[2]))
                        /\ rectangles[j][6] = OpacityOf(Sample(c[1], c[2]))
        /\ \A j \in 1..Len(rectangles) :
              \A c \in Footprint(rectangles[j]) :
                  /\ c \in Coords
                  /\ Sample(c[1], c[2])[4] > 0
                  /\ rectangles[j][5] = ColorName(Sample(c[1], c[2]))
                  /\ rectangles[j][6] = OpacityOf(Sample(c[1], c[2]))

\* a finished conversion of a grid with two colors and two opacities
C2_Witness ==
    /\ pc = "done"
    /\ \E a, b \in 1..Len(rectangles) :
          /\ rectangles[a][5] # rectangles[b][5]
          /\ rectangles[a][6] = rectangles[b][6]
    /\ \E a, b \in 1..Len(rectangles) :
          /\ rectangles[a][5] = rectangles[b][5]
          /\ rectangles[a][6] # rectangles[b][6]
RunsComplete == pc = "merge" /\ rectangles = <<>>

\* the first phase is running or has just ended
RunsPhase == pc = "runs" \/ RunsComplete

\* a run holds the pixel c
InRun(run, c) == c[2] = run[1] /\ run[2] <= c[1] /\ c[1] < run[3]

\* the pixel at column xx of row yy is transparent, or not of the run's color
\* and opacity
Differs(run, xx, yy) ==
    \/ Sample(xx, yy)[4] = 0
    \/ ColorName(Sample(xx, yy)) # run[4]
    \/ OpacityOf(Sample(xx, yy)) # run[5]

\* the pixels the first phase has passed
Scanned ==
    IF pc = "runs" THEN { c \in Coords : c[2] < y \/ (c[2] = y /\ c[1] < x) }
    ELSE Coords

\* C4: every run has start < end, holds only non-transparent pixels of its
\* own (color, opacity), and is maximal to the left and to the right; a pixel
\* with alpha 0 is in no run and every other pixel passed is in exactly one
\* run.
C4_RunsMaximalUniform ==
    RunsPhase =>
        /\ \A j \in 1..Len(horizontal_runs) :
              LET run == horizontal_runs[j]
              IN  /\ 0 <= run[1] /\ run[1] < height
                  /\ 0 <= run[2] /\ run[2] < run[3] /\ run[3] <= width
                  /\ \A xx \in run[2]..(run[3] - 1) : ~Differs(run, xx, run[1])
                  /\ run[2] > 0 => Differs(run, run[2] - 1, run[1])
                  /\ run[3] < width => Differs(run, run[3], run[1])
        /\ \A c \in Scanned :
              LET holders == { j \in 1..Len(horizontal_runs) :
                                  InRun(horizontal_runs[j], c) }
              IN  IF Sample(c[1], c[2])[4] = 0 THEN holders = {}
                  ELSE Cardinality(holders) = 1

\* the first phase is over on a grid with a transparent pixel, a run of two
\* pixels and two runs that touch in one row
C4_Witness ==
    /\ RunsComplete
    /\ NonTransparent # Coords
    /\ \E j \in 1..Len(extracted) : extracted[j][3] - extracted[j][2] >= 2
    /\ \E a, b \in 1..Len(extracted) :
          extracted[a][1] = extracted[b][1] /\ extracted[a][3] = extracted[b][2]

\* the runs are in ascending order of row, then of start column, and runs of
\* one row do not share a column
Ordered(runs) ==
    \A a, b \in 1..Len(runs) :
        a < b =>
            \/ runs[a][1] < runs[b][1]
            \/ (runs[a][1] = runs[b][1] /\ runs[a][2] < runs[b][2]
                /\ runs[a][3] <= runs[b][2])

\* C5: the run list of the first phase is strictly ordered by row and, within
\* a row, by start column, and the runs of one row are disjoint intervals.
C5_RunsOrdered == RunsPhase => Ordered(horizontal_runs)

\* the first phase is over with two runs in one row and runs in three rows
C5_Witness ==
    /\ RunsComplete
    /\ \E a, b \in 1..Len(extracted) :
          a # b /\ extracted[a][1] = extracted[b][1]
    /\ Cardinality({ extracted[j][1] : j \in 1..Len(extracted) }) >= 3
\* the runs a rectangle of the given seed and height is made of
RunsOf(sy, sx, ex, c, o, h) == [ n \in 1..h |-> << sy + n - 1, sx, ex, c, o >> ]

\* C6 (state): every finalized rectangle of height h with seed
\* (y, x0, x1, color, opacity) is built from exactly the runs
\* (y+n, x0, x1, color, opacity), n = 0..h-1, of the run list, and so is the
\* rectangle being built.
C6_BuiltFromStack ==
    /\ Len(built) = Len(rectangles)
    /\ \A j \in 1..Len(rectangles) :
          LET r == rectangles[j]
          IN  /\ built[j] = RunsOf(r[2], r[1], r[1] + r[3], r[5], r[6], r[4])
              /\ \A n \in 1..Len(built[j]) :
                    \E m \in 1..Len(extracted) : extracted[m] = built[j][n]
    /\ pc = "scan" =>
          absorbed = RunsOf(y, start_x, end_x, color, opacity, height_run)

\* C6 (step): a finalized rectangle, and the runs it is built from, never
\* change again.
C6_FinalizedFrozen ==
    \A j \in 1..Len(rectangles) :
        /\ Len(rectangles') >= j
        /\ rectangles'[j] = rectangles[j]
        /\ built'[j] = built[j]

\* C6: merging is strictly vertical and strictly contiguous, and a finalized
\* rectangle is never extended again.
C6_VerticalContiguous == []C6_BuiltFromStack /\ [][C6_FinalizedFrozen]_vars

\* a finished conversion with a rectangle of several rows and two rectangles
\* of one span, color and opacity that a differing row keeps apart
C6_Witness ==
    /\ pc = "done"
    /\ \E j \in 1..Len(rectangles) : rectangles[j][4] >= 2
    /\ \E a, b \in 1..Len(rectangles) :
          /\ rectangles[a][1] = rectangles[b][1]
          /\ rectangles[a][3] = rectangles[b][3]
          /\ rectangles[a][5] = rectangles[b][5]
          /\ rectangles[a][6] = rectangles[b][6]
          /\ rectangles[a][2] + rectangles[a][4] < rectangles[b][2]

\* the value of the attribute of that name
Attr(elem, name) ==
    elem[CHOOSE m \in 1..Len(elem) : elem[m][1] = name][2]

AttrNames(elem) == { elem[m][1] : m \in 1..Len(elem) }

\* (row, column) of a comes before (row, column) of b
Before(ay, ax, by, bx) == ay < by \/ (ay = by /\ ax < bx)

\* the runs of the run list that the first j rectangles do not hold
Unused(j) ==
    { m \in 1..Len(extracted) :
        \A a \in 1..j : \A n \in 1..Len(built[a]) : built[a][n] # extracted[m] }

\* C7: whenever a rectangle has been finalized, each rectangle's seed is the
\* first run of the run list that no earlier rectangle holds; the rectangles are in ascending order of (y, x); the group
\* holds one rect per rectangle consumed, in the same order, and the written
\* document holds them in one container.
C7_FifoOrder ==
    /\ pc = "merge" =>
          \A j \in 1..Len(rectangles) :
              /\ Unused(j - 1) # {}
              /\ built[j][1] =
                    extracted[CHOOSE m \in Unused(j - 1) :
                                 \A n \in Unused(j - 1) : m <= n]
    /\ pc = "scan" =>
          \A m \in 1..Len(horizontal_runs) :
              Before(y, start_x, horizontal_runs[m][1], horizontal_runs[m][2])
    /\ \A a, b \in 1..Len(rectangles) :
          a < b => Before(rectangles[a][2], rectangles[a][1],
                          rectangles[b][2], rectangles[b][1])
    /\ Len(pixel_group) =
          (IF pc = "emit" THEN k ELSE IF pc = "done" THEN Len(rectangles) ELSE 0)
    /\ \A j \in 1..Len(pixel_group) :
          /\ Attr(pixel_group[j], "x") = IntStr(rectangles[j][1] * scale)
          /\ Attr(pixel_group[j], "y") = IntStr(rectangles[j][2] * scale)
          /\ Attr(pixel_group[j], "fill") = rectangles[j][5]
    /\ pc = "done" =>
          LET n == Len(rectangles)
          IN  /\ Cardinality({ m \in 1..Len(svg_file) :
                                  svg_file[m] \in {"  <g>", "  <g/>"} }) = 1
              /\ IF n = 0
                 THEN Len(svg_file) = 4 /\ svg_file[2] = "  <g/>"
                 ELSE /\ Len(svg_file) = n + 5
                      /\ svg_file[2] = "  <g>"
                      /\ svg_file[n + 3] = "  </g>"
                      /\ \A j \in 1..n :
                            svg_file[j + 2] =
                               "    <rect" \o AttrText(pixel_group[j]) \o "/>"

\* a written document of at least three rectangles, one of them several rows
\* high (its lower runs were taken from the middle of the pending list)
C7_Witness ==
    /\ pc = "done"
    /\ Len(rectangles) >= 3
    /\ \E j \in 1..Len(rectangles) : rectangles[j][4] >= 2
    /\ Len(svg_file) = Len(rectangles) + 5

\* C8: every rect has position (x*s, y*s) and size (w*s + 0.5, h*s + 0.5), and
\* the root has width = sourceWidth*s, height = sourceHeight*s and the viewBox
\* of these.
C8_ScaleLinearity ==
    /\ \A j \in 1..Len(pixel_group) :
          LET r == rectangles[j]
              e == pixel_group[j]
          IN  /\ Attr(e, "x") = IntStr(r[1] * scale)
              /\ Attr(e, "y") = IntStr(r[2] * scale)
              /\ Attr(e, "width") = FloatStr(2 * (r[3] * scale) + 1)
              /\ Attr(e, "height") = FloatStr(2 * (r[4] * scale) + 1)
    /\ pc # "root" =>
          /\ Attr(svg, "width") = IntStr(width * scale)
          /\ Attr(svg, "height") = IntStr(height * scale)
          /\ Attr(svg, "viewBox") =
                "0 0 " \o IntStr(width * scale) \o " " \o IntStr(height * scale)

\* a document at scale 2 with a rectangle two pixels wide and one not at the
\* origin
C8_Witness ==
    /\ pc = "done"
    /\ scale = 2
    /\ \E j \in 1..Len(rectangles) :
          rectangles[j][3] = 2 /\ Attr(pixel_group[j], "width") = "4.5"
    /\ \E j \in 1..Len(rectangles) : rectangles[j][1] > 0 /\ rectangles[j][2] > 0

\* C9: every rect has fill and stroke of the rectangle's color and
\* stroke-width 0.5; it has fill-opacity and stroke-opacity, both the
\* rectangle's opacity, exactly when the pixel's alpha is below 255; it has no
\* other attribute.
C9_RectAttributes ==
    \A j \in 1..Len(pixel_group) :
        LET r == rectangles[j]
            e == pixel_group[j]
            s == Sample(r[1], r[2])
            base == {"x", "y", "width", "height", "fill", "stroke", "stroke-width"}
            opac == {"fill-opacity", "stroke-opacity"}
        IN  /\ Cardinality(AttrNames(e)) = Len(e)
            /\ Attr(e, "fill") = ColorName(s)
            /\ Attr(e, "stroke") = ColorName(s)
            /\ Attr(e, "stroke-width") = "0.5"
            /\ AttrNames(e) = (IF s[4] < 255 THEN base \cup opac ELSE base)
            /\ s[4] < 255 =>
                  /\ Attr(e, "fill-opacity") = OpacityStr(OpacityOf(s))
                  /\ Attr(e, "stroke-opacity") = OpacityStr(OpacityOf(s))

\* a document with an opaque rect and a half-transparent one
C9_Witness ==
    /\ pc = "done"
    /\ \E j \in 1..Len(pixel_group) :
          /\ "fill-opacity" \in AttrNames(pixel_group[j])
          /\ Attr(pixel_group[j], "fill-opacity") = "0.5019607843137255"
    /\ \E j \in 1..Len(pixel_group) : "fill-opacity" \notin AttrNames(pixel_group[j])

\* every pixel has the sample of pixel (0, 0), which is not transparent
Uniform ==
    /\ Sample(0, 0)[4] # 0
    /\ \A c \in Coords : Sample(c[1], c[2]) = Sample(0, 0)

\* C10: a grid of one non-transparent (color, opacity) yields exactly the
\* rectangle (0, 0, W, H, color, opacity); 1x1 and 2x2 opaque red yield
\* (0,0,1,1,red,1.0) and (0,0,2,2,red,1.0).
C10_UniformOneRectangle ==
    MergeComplete =>
        /\ Uniform =>
              rectangles = << << 0, 0, width, height, ColorName(Sample(0, 0)),
                                 OpacityOf(Sample(0, 0)) >> >>
        /\ (width = 1 /\ height = 1 /\ pixel_view = <<255, 0, 0, 255>>) =>
              rectangles = << << 0, 0, 1, 1, "rgb(255,0,0)", <<255, 255>> >> >>
        /\ (width = 2 /\ height = 2
            /\ pixel_view = <<255, 0, 0, 255, 255, 0, 0, 255,
                              255, 0, 0, 255, 255, 0, 0, 255>>) =>
              rectangles = << << 0, 0, 2, 2, "rgb(255,0,0)", <<255, 255>> >> >>

\* the 2x2 opaque red grid has been merged into one rectangle
C10_Witness ==
    /\ pc = "done"
    /\ width = 2 /\ height = 2
    /\ Uniform
    /\ Sample(0, 0) = <<255, 0, 0, 255>>
    /\ Len(rectangles) = 1
\* every pixel has alpha 0
AllTransparent == \A c \in Coords : Sample(c[1], c[2])[4] = 0

\* C11: a grid of alpha 0 everywhere yields no run and no rectangle, and the
\* document written is the root element, with the canvas dimensions and the
\* viewBox, around an empty container.
C11_TransparentEmptyDocument ==
    AllTransparent =>
        /\ horizontal_runs = <<>>
        /\ extracted = <<>>
        /\ rectangles = <<>>
        /\ pixel_group = <<>>
        /\ pc = "done" =>
              svg_file =
                 << "<svg width=\"" \o IntStr(width * scale)
                      \o "\" height=\"" \o IntStr(height * scale)
                      \o "\" xmlns=\"http://www.w3.org/2000/svg\" version=\"1.1\""
                      \o " viewBox=\"0 0 " \o IntStr(width * scale) \o " "
                      \o IntStr(height * scale)
                      \o "\" shape-rendering=\"crispEdges\">",
                    "  <g/>",
                    "</svg>",
                    "" >>

\* the document of a fully transparent image of several pixels is written
C11_Witness ==
    /\ pc = "done"
    /\ AllTransparent
    /\ width * height >= 4
    /\ svg_file[2] = "  <g/>"

\* the 2x2 grid [red, blue / blue, red], all opaque
Checkerboard ==
    /\ width = 2 /\ height = 2
    /\ pixel_view = << 255, 0, 0, 255,   0, 0, 255, 255,
                       0, 0, 255, 255,   255, 0, 0, 255 >>

\* two runs have one span, color and opacity
SameSpanColor(a, b) ==
    a[2] = b[2] /\ a[3] = b[3] /\ a[4] = b[4] /\ a[5] = b[5]

\* C12: the checkerboard yields exactly four 1x1 rectangles, one per pixel;
\* two runs that differ in start, end, color or opacity are never in one
\* rectangle.
C12_CheckerboardNoMerge ==
    /\ (Checkerboard /\ MergeComplete) =>
          rectangles =
             << << 0, 0, 1, 1, "rgb(255,0,0)", <<255, 255>> >>,
                << 1, 0, 1, 1, "rgb(0,0,255)", <<255, 255>> >>,
                << 0, 1, 1, 1, "rgb(0,0,255)", <<255, 255>> >>,
                << 1, 1, 1, 1, "rgb(255,0,0)", <<255, 255>> >> >>
    /\ pc = "scan" =>
          \A n \in 1..Len(absorbed) : SameSpanColor(absorbed[1], absorbed[n])
    /\ pc = "merge" =>
          \A j \in 1..Len(built) :
              \A n \in 1..Len(built[j]) : SameSpanColor(built[j][1], built[j][n])

\* the checkerboard has been converted
C12_Witness == pc = "done" /\ Checkerboard /\ Len(rectangles) = 4

\* C13: a document is written only for a scale of at least 1.
C13_ScaleBelowOneRejected == pc = "done" => scale >= 1

\* C18 as claimed: no run before the grid, no rectangle before the run list is
\* whole, and no part of the document, root or primitive, before every
\* rectangle is final.
C18_NoDocumentBeforeMerge ==
    /\ pc \in {"root", "grid"} => horizontal_runs = <<>>
    /\ pc \in {"root", "grid", "runs"} => rectangles = <<>>
    /\ (svg # <<>> \/ pixel_group # <<>>) => MergeComplete

\* C18 as amended: the root element and its empty group are made first,
\* before the grid; from there the stages run in sequence: no run before the
\* grid, no rectangle before the run list holds every non-transparent pixel,
\* no rect before every rectangle is final.
C18_StagesSequentialAfterRoot ==
    /\ pc = "root" => svg = <<>>
    /\ pc # "root" => svg # <<>>
    /\ pc \in {"root", "grid"} => grid = <<>> /\ horizontal_runs = <<>>
    /\ pc \in {"root", "grid", "runs"} => rectangles = <<>>
    /\ pc \in {"merge", "scan"} =>
          \A c \in NonTransparent :
              \E m \in 1..Len(extracted) : InRun(extracted[m], c)
    /\ pixel_group # <<>> =>
          /\ MergeComplete
          /\ horizontal_runs = <<>>
          /\ Len(built) = Len(rectangles)

\* the first rect has been made, with every rectangle already final
C18_Witness ==
    /\ pc = "emit"
    /\ k = 1
    /\ Len(pixel_group) = 1
    /\ Len(rectangles) >= 2

\* C15 as claimed: when the write fails after svg_path was opened, the path
\* holds no partial and no empty file: no file, or the complete earlier one.
C15_NoPartialFileAfterWriteFailure ==
    (pc = "raised" /\ error = "write") => svg_file \in { <<>>, Previous }

\* the call failed before the final write
FailedBeforeWrite == pc = "raised" /\ error \in {"decode", "encode", "memory"}

\* a step other than the final write leaves the file at svg_path as it was
C16_DestinationKept ==
    (pc' \in {"root", "grid", "runs", "merge", "scan", "emit"}
        \/ (pc' = "raised" /\ error' # "write"))
    => svg_file' = svg_file

\* after a failure before the final write the caller holds no run list and
\* no rectangle list, and svg_path holds what it held at the call
C16_NothingObservable ==
    FailedBeforeWrite =>
        /\ horizontal_runs = <<>>
        /\ extracted = <<>>
        /\ rectangles = <<>>
        /\ pixel_group = <<>>
        /\ svg_file \in { <<>>, Previous }

\* C16: when png2svg fails before the final write, svg_path is neither
\* created nor modified, and no run list or partial rectangle list is left
\* for the caller to observe.
C16_FailureBeforeWriteLeavesNothing ==
    [][C16_DestinationKept]_vars /\ []C16_NothingObservable

\* the serialization failed after rectangles were made, with the earlier file
\* still at svg_path
C16_Witness ==
    /\ pc = "raised"
    /\ error = "encode"
    /\ svg_file = Previous
    /\ NonTransparent # {}
\* C14 as claimed: when one image fails to decode, every other file of the
\* input tree is still converted or copied by the end of the batch.
C14_FailureAbortsOnlyThatFile ==
    dpc \in {"finished", "aborted"} =>
        \A e \in input_files \ broken :
            \E line \in log : line[2] = e

\* C17 as claimed: after process_directory completes without error every
\* input directory is mirrored, every image was converted into the mirrored
\* directory, and every other file is at its relative path with its content.
C17_OutputMirrorsInput ==
    dpc = "finished" =>
        /\ \A d \in input_dirs : OutSubdir(d) \in out_dirs
        /\ \A e \in input_files :
              IF EndsWithPng(e[2])
              THEN \E line \in log :
                      /\ line[1] = "Converted"
                      /\ line[2] = e
                      /\ SubSeq(line[3], 1, Len(OutSubdir(e[1])))
                            = OutSubdir(e[1])
              ELSE << DestPath(e[1], e[2]), <<"bytes", e[1], e[2]>> >>
                      \in output
\* C19 as claimed: by the time main has finished, on whatever path, the
\* temporary directory of the zip extraction is gone.
C19_TempDirRemovedOnExit == cpc = "exited" => ~temp_on_disk

\* C20 as claimed: once extract_cursor_images has searched, a cursor file
\* that lies in an extracted zip directory has been found, also when that is
\* not the directory of the INF file.
C20_CursorInExtractedZipFound ==
    (cpc \in {"finally", "exited"} /\ exit_code = 0) =>
        ((\E n \in 1..Len(extracted_zip_dirs) :
              HasCursor(extracted_zip_dirs[n]))
           => found # NoDir)
\* a sequence without its element number j
Without(s, j) == [ n \in 1..(Len(s) - 1) |-> IF n < j THEN s[n] ELSE s[n + 1] ]

\* the pending runs that extend the rectangle of a seed at the height h
Extending(pending, seed, h) ==
    { j \in 1..Len(pending) :
         /\ pending[j][1] = seed[1] + h
         /\ pending[j][2] = seed[2]
         /\ pending[j][3] = seed[3]
         /\ pending[j][4] = seed[4]
         /\ pending[j][5] = seed[5] }

\* step 3 of the specification: search all the pending runs, remove the one
\* found, and search again from the start at the new height; the result is
\* the final height and what stays pending
RECURSIVE Grow(_, _, _)
Grow(pending, seed, h) ==
    IF Extending(pending, seed, h) = {} THEN << h, pending >>
    ELSE LET j == CHOOSE m \in Extending(pending, seed, h) :
                      \A n \in Extending(pending, seed, h) : m <= n
         IN  Grow(Without(pending, j), seed, h + 1)

\* steps 2 to 4 of the specification, until the queue is empty
RECURSIVE RestartingMerge(_)
RestartingMerge(pending) ==
    IF pending = <<>> THEN <<>>
    ELSE LET seed == Head(pending)
             grown == Grow(Tail(pending), seed, 1)
         IN  << << seed[2], seed[1], seed[3] - seed[2], grown[1], seed[4],
                   seed[5] >> >>
             \o RestartingMerge(grown[2])

\* C21: on the canonical run list the merge loop, one forward pass per seed
\* that goes on from the place of the removed run, yields the rectangle list
\* of the merge that searches all pending runs again after every extension:
\* between two seeds, the rectangles made so far followed by the restarting
\* merge of what is pending are the restarting merge of the whole run list.
C21_ForwardPassEqualsRestart ==
    pc = "merge" =>
        rectangles \o RestartingMerge(horizontal_runs)
           = RestartingMerge(extracted)

\* the merge is over for a grid in which a rectangle grew past a run that
\* the forward pass had to step over
C21_Witness ==
    /\ pc = "merge"
    /\ horizontal_runs = <<>>
    /\ Len(rectangles) >= 2
    /\ Len(extracted) >= 4
    /\ \E j \in 1..Len(rectangles) : rectangles[j][4] >= 2
\* the rectangles whose footprint holds the coordinate c
Covering(c) == { j \in 1..Len(rectangles) : c \in Footprint(rectangles[j]) }

\* C22: whatever the order of the runs the merge loop is given, the
\* rectangles are a valid decomposition: every non-transparent pixel lies in
\* exactly one rectangle, which has the pixel's color and opacity, and no
\* transparent pixel and no place outside the image lies in any.
C22_AnyOrderValidDecomposition ==
    (pc = "merge" /\ horizontal_runs = <<>>) =>
        /\ \A c \in Coords :
              IF c \in NonTransparent
              THEN /\ Cardinality(Covering(c)) = 1
                   /\ \A j \in Covering(c) :
                         /\ rectangles[j][5] = ColorName(Sample(c[1], c[2]))
                         /\ rectangles[j][6] = OpacityOf(Sample(c[1], c[2]))
              ELSE Covering(c) = {}
        /\ \A j \in 1..Len(rectangles) : Footprint(rectangles[j]) \subseteq Coords

\* an order other than the canonical one has led to more rectangles than the
\* canonical order gives
C22_Witness ==
    /\ pc = "merge"
    /\ horizontal_runs = <<>>
    /\ Len(rectangles) > Len(RestartingMerge(extracted))
\* a step of the first phase moves x to the right in its row or starts the
\* next row; taking a seed shortens the pending list by one; a step of the
\* scan shortens the pending list or moves i on
C23_Progress ==
    /\ (pc = "runs" /\ pc' = "runs") =>
          \/ y' = y /\ x' > x /\ x' <= width
          \/ y' = y + 1 /\ x' = 0 /\ x >= width
    /\ (pc = "merge" /\ pc' = "scan") =>
          Len(horizontal_runs') = Len(horizontal_runs) - 1
    /\ (pc = "scan" /\ pc' = "scan") =>
          \/ Len(horizontal_runs') = Len(horizontal_runs) - 1 /\ i' = i
          \/ horizontal_runs' = horizontal_runs /\ i' = i + 1

\* the pending list is empty and every rectangle is in the rectangle list
C23_Merged ==
    /\ MergeComplete
    /\ horizontal_runs = <<>>
    /\ Len(rectangles) = Len(built)

\* C23: both phases end for every grid: in the first phase the column index
\* grows with every iteration, in the second every outer iteration removes
\* the seed and every inner iteration removes a run or advances the index,
\* so that in the end the pending list is empty and the rectangle list whole.
C23_BothPhasesTerminate == [][C23_Progress]_vars /\ <>C23_Merged

\* the phases have ended on a grid of six runs
C23_Witness ==
    /\ pc = "emit"
    /\ k = 0
    /\ Len(extracted) = 6
    /\ horizontal_runs = <<>>
\* the rectangle under construction, as the seed it started from
Seed == << y, start_x, end_x, color, opacity >>

\* C25: at every step of an extension at most one pending run matches (the
\* row right below the rectangle, the same start, end, color and opacity), so
\* the order of the list never decides which run extends a rectangle.
C25_AtMostOneMatch ==
    pc = "scan" =>
        Cardinality(Extending(horizontal_runs, Seed, height_run)) <= 1

\* a scan in which exactly one of several pending runs matches
C25_Witness ==
    /\ pc = "scan"
    /\ Len(horizontal_runs) >= 3
    /\ Cardinality(Extending(horizontal_runs, Seed, height_run)) = 1
\* how often e occurs in the sequence s
Count(s, e) == Cardinality({ n \in 1..Len(s) : s[n] = e })

\* the sequences of a sequence, one after the other
RECURSIVE Flatten(_)
Flatten(ss) == IF ss = <<>> THEN <<>> ELSE Head(ss) \o Flatten(Tail(ss))

\* the sum of the heights of a list of rectangles
RECURSIVE Heights(_)
Heights(rects) == IF rects = <<>> THEN 0 ELSE Head(rects)[4] + Heights(Tail(rects))

\* the runs consumed so far: those of the finished rectangles and, during a
\* scan, those of the rectangle under construction
Consumed == Flatten(built) \o (IF pc = "scan" THEN absorbed ELSE <<>>)

\* C26: every run is consumed by exactly one rectangle, never dropped and
\* never used twice: throughout the merge phase the consumed runs together
\* with the pending runs are the original run list, run for run; at the end
\* the heights of the rectangles add up to the number of runs and there are
\* at most as many rectangles as runs.
C26_RunsConsumedOnce ==
    /\ pc \in {"merge", "scan"} =>
          /\ Len(Consumed) + Len(horizontal_runs) = Len(extracted)
          /\ \A n \in 1..Len(extracted) :
                Count(Consumed \o horizontal_runs, extracted[n]) = 1
          /\ Len(rectangles) = Len(built)
          /\ \A j \in 1..Len(rectangles) : rectangles[j][4] = Len(built[j])
    /\ (pc = "merge" /\ horizontal_runs = <<>>) =>
          /\ Heights(rectangles) = Len(extracted)
          /\ Len(rectangles) <= Len(extracted)

\* in the middle of the merge phase: a rectangle is finished, another has
\* absorbed a second run, and a run is pending
C26_Witness ==
    /\ pc = "scan"
    /\ Len(built) >= 1
    /\ Len(absorbed) >= 2
    /\ Len(horizontal_runs) >= 1
\* rectangle b starts right below rectangle a, with a's x, width, color and
\* opacity
StacksOn(a, b) ==
    /\ b[1] = a[1]
    /\ b[3] = a[3]
    /\ b[5] = a[5]
    /\ b[6] = a[6]
    /\ b[2] = a[2] + a[4]

\* C27: with the canonical run order every rectangle is vertically maximal:
\* no two rectangles of the result have the same x, width, color and opacity
\* with one starting in the row right below the other.
C27_VerticallyMaximal ==
    (pc = "merge" /\ horizontal_runs = <<>>) =>
        \A a, b \in 1..Len(rectangles) :
            ~StacksOn(rectangles[a], rectangles[b])

\* the result has a rectangle of two rows or more and, right below it in the
\* same columns, a rectangle that differs in color or opacity
C27_Witness ==
    /\ pc = "merge"
    /\ horizontal_runs = <<>>
    /\ \E a, b \in 1..Len(rectangles) :
          /\ rectangles[a][4] >= 2
          /\ rectangles[b][1] = rectangles[a][1]
          /\ rectangles[b][3] = rectangles[a][3]
          /\ rectangles[b][2] = rectangles[a][2] + rectangles[a][4]
\* C29 as claimed: distinct input files never write to one output path, so
\* that no output replaces another and, when the walk has finished, there
\* are as many output files as input files.
C29_NoOutputPathShared ==
    /\ \A a, b \in log : a[2] # b[2] => a[3] # b[3]
    /\ dpc = "finished" => Cardinality(output) = Cardinality(input_files)

\* C30 as claimed: the output path of a file recognised as an image is its
\* mirrored destination path with the last extension, in whatever letter
\* case, replaced by ".svg" and nothing else changed.
C30_OnlyFinalExtensionReplaced ==
    \A line \in log :
        line[1] = "Converted" =>
            line[3] = OutSubdir(line[2][1]) \o << "/" >>
                         \o << line[2][2][1], ".svg" >>
\* the cursor types the loop has taken so far
Taken ==
    { t \in CursorTypes :
         /\ \E n \in 1..Len(Mapped(CursorOrder, cursor_mappings)) :
               Mapped(CursorOrder, cursor_mappings)[n] = t
         /\ \A n \in 1..Len(processed_mappings) : processed_mappings[n] # t }

\* C24: a failure on one cursor file is caught and the remaining cursor
\* types are still processed; each mapped cursor type is processed at most
\* once, its .cur file only when no .ani file was found; success_count is the
\* number of cursor types whose processing returned success, between 0 and
\* total_count.
C24_FailuresContained ==
    ipc \in {"loop", "metadata", "end"} =>
        /\ \A t \in Taken :
              /\ cursor_files[t].ani # "none" =>
                    { c \in calls : c[1] = t }
                       = { << t, "ani", cursor_files[t].ani = "good" >> }
              /\ (cursor_files[t].ani = "none" /\ cursor_files[t].cur # "none") =>
                    { c \in calls : c[1] = t }
                       = { << t, "cur", cursor_files[t].cur = "good" >> }
              /\ (cursor_files[t].ani = "none" /\ cursor_files[t].cur = "none") =>
                    { c \in calls : c[1] = t } = {}
        /\ \A c \in calls : c[1] \in Taken
        /\ success_count = Cardinality({ c \in calls : c[3] })
        /\ 0 <= success_count
        /\ success_count <= total_count
        /\ ipc # "loop" => Cardinality(Taken) = total_count

\* the loop has ended after a failure on the first cursor type and a success
\* on the second, with a .cur file left untried beside an .ani file
C24_Witness ==
    /\ ipc = "metadata"
    /\ << "pointer", "ani", FALSE >> \in calls
    /\ cursor_files["pointer"].cur = "good"
    /\ << "text", "cur", TRUE >> \in calls
    /\ success_count = 1
    /\ total_count = 2

\* C28 as claimed: every cursor entry of metadata.toml belongs to a cursor
\* type whose file was found and converted to SVG; a type whose file was
\* missing or failed is not listed.
C28_MetadataListsConvertedOnly ==
    ipc = "end" =>
        \A name \in metadata :
            /\ name \in svg_made
            /\ \E c \in calls : OutputName(c[1]) = name /\ c[3]
====
